---- MODULE Spec2Model ----
(***************************************************************************)
(* Model of src/Code.py: the teleoperation loop of the LEGO RC car.  One   *)
(* thread opens the controller, reads input events one at a time and       *)
(* turns them into steering, drive and sound commands; a try/except/finally*)
(* around the loop stops the motors when the loop is left.                 *)
(*                                                                         *)
(* The file is modelled as it runs on the interpreter of the ev3dev image  *)
(* (Python 3.5), where the module-level "global steering_trim" of line 76  *)
(* is a warning.  Interpreters from 3.6 on reject the file at compile time.*)
(***************************************************************************)
EXTENDS Integers, Sequences, FiniteSets, TLC

\* ---- configuration (src/Code.py lines 9-29) ----
ACCEL_CODE == 313
REVERSE_CODE == 314
BRAKE_CODE == 312
HORN_CODE == 304
HORN2_CODE == 305
STOP_SOUND_CODE == 308
STEERING_AXIS_CODE == 0
TRIM_AXIS_CODE == 16
TRIM_STEP == 1
MAX_TRIM == 45
FULL_SPEED == 100
AXIS_MIN == 0
AXIS_MAX == 255
AXIS_MID == 128
STEERING_DEADZONE == 10
STEERING_MAX_ANGLE == 90
STEERING_SPEED == 720

\* evdev event types (ecodes.EV_SYN, ecodes.EV_KEY, ecodes.EV_ABS)
EV_SYN == 0
EV_KEY == 1
EV_ABS == 3

\* ---- bounds of the model ----
\* the encoder value read at line 87 is drawn within MaxDelta degrees of the target
MaxDelta == 5
\* a key code and an axis code that are bound to nothing
OtherKeyCode == 310
OtherAxisCode == 1

VARIABLES
    pc,              \* position of the single thread
    steering_trim,   \* global steering_trim (line 32)
    ev,              \* the event being processed (loop variable of line 78)
    target_angle,    \* local target_angle of line 83
    position,        \* current_position read at line 87
    trim0,           \* steering_trim when the event was taken from the device
    drive0,          \* drive when the event was taken from the device
    out,             \* commands issued while processing ev, in order
    drive,           \* last state commanded to the tank (MoveTank on B and C)
    steer,           \* last state commanded to the steering motor
    stop_action,     \* steering_motor.stop_action
    shut,            \* commands issued after the loop was left, in order
    exitPath,        \* how the loop (or the program) was left
    exitFrom,        \* position of the thread when the loop was left
    exitCode         \* process exit status

vars == <<pc, steering_trim, ev, target_angle, position, trim0, drive0, out,
          drive, steer, stop_action, shut, exitPath, exitFrom, exitCode>>

\* ---- values ----
NoEvent == [type |-> -1, code |-> -1, value |-> 0]
\* "not set" for the two integer locals: outside every angle the program forms
NoAngle == 4 * AXIS_MAX
NoPosition == 4 * AXIS_MAX

Event(t, c, v) == [type |-> t, code |-> c, value |-> v]

KeyCodes == {ACCEL_CODE, REVERSE_CODE, BRAKE_CODE, HORN_CODE, HORN2_CODE,
             STOP_SOUND_CODE, OtherKeyCode}

\* what the controller can deliver: stick samples, D-pad values, key
\* press/release/repeat, and events the program binds to nothing
Events ==
    {Event(EV_ABS, STEERING_AXIS_CODE, v) : v \in AXIS_MIN..AXIS_MAX}
    \cup {Event(EV_ABS, TRIM_AXIS_CODE, v) : v \in {-1, 0, 1, 2}}
    \cup {Event(EV_ABS, OtherAxisCode, v) : v \in {0, 200}}
    \cup {Event(EV_KEY, c, v) : c \in KeyCodes, v \in {0, 1, 2}}
    \cup {Event(EV_SYN, 0, 0)}

Cmd(o, a) == [op |-> o, arg |-> a]

Max(a, b) == IF a >= b THEN a ELSE b
Min(a, b) == IF a <= b THEN a ELSE b
Abs(a) == IF a >= 0 THEN a ELSE -a

Init ==
    /\ pc = "open"
    /\ steering_trim = 0
    /\ ev = NoEvent
    /\ target_angle = NoAngle
    /\ position = NoPosition
    /\ trim0 = 0
    /\ drive0 = "idle"
    /\ out = <<>>
    /\ drive = "idle"
    /\ steer = "reset"
    /\ stop_action = "coast"
    /\ shut = <<>>
    /\ exitPath = "none"
    /\ exitFrom = "none"
    /\ exitCode = 0

\* ---- helper of lines 41-57 ----

\* variant: the deadzone excludes its two end points
is_centered_strict(raw_value) ==
    /\ AXIS_MID - STEERING_DEADZONE < raw_value
    /\ raw_value < AXIS_MID + STEERING_DEADZONE

\* the chained comparison of line 47, inside normalize_steering
is_centered_on_stick(raw_value) ==
    /\ AXIS_MID - STEERING_DEADZONE <= raw_value
    /\ raw_value <= AXIS_MID + STEERING_DEADZONE

\* variant: the loop tests the stick position shifted by the trim
dispatch_is_centered_trimmed(raw_value) ==
    /\ AXIS_MID - STEERING_DEADZONE <= raw_value + steering_trim
    /\ raw_value + steering_trim <= AXIS_MID + STEERING_DEADZONE

\* the same comparison written again at line 84, in the loop
dispatch_is_centered(raw_value) ==
    /\ AXIS_MID - STEERING_DEADZONE <= raw_value
    /\ raw_value <= AXIS_MID + STEERING_DEADZONE

\* variant: rounding down (floor) instead of toward zero
int_floor(num, den) == num \div den

\* Python's int() of the float num/den (den > 0): the fraction is dropped,
\* so the result moves toward zero
int_trunc(num, den) ==
    IF num >= 0 THEN num \div den ELSE -((-num) \div den)

\* variant: the offset from the midpoint is taken with the wrong sign
normalize_steering_mirrored(raw_value) ==
    IF is_centered_on_stick(raw_value)
    THEN steering_trim
    ELSE LET normalized_val == AXIS_MID - raw_value
         IN  int_trunc(normalized_val * STEERING_MAX_ANGLE
                          + steering_trim * (AXIS_MAX - AXIS_MID),
                       AXIS_MAX - AXIS_MID)

\* normalize_steering reads the global steering_trim.  Line 55 forms
\* (normalized_val / 127) * 90 in floating point and line 57 adds the trim
\* and converts; the sum is the fraction (normalized_val*90 + trim*127)/127,
\* which is whole only for normalized_val = 127 and -127, where the float
\* quotient is exactly 1.0 and -1.0, so the float result and the exact one
\* have the same integer part for every raw value and trim.
normalize_steering(raw_value) ==
    IF is_centered_on_stick(raw_value)
    THEN steering_trim
    ELSE LET normalized_val == raw_value - AXIS_MID
         IN  int_trunc(normalized_val * STEERING_MAX_ANGLE
                          + steering_trim * (AXIS_MAX - AXIS_MID),
                       AXIS_MAX - AXIS_MID)

\* variant: the stutter test fires at one degree already
issue_steering_at_one(centered, current_position, target) ==
    IF centered THEN Abs(current_position - target) >= 1 ELSE TRUE

\* lines 86-93: is run_to_abs_pos called for this sample
issue_steering(centered, current_position, target) ==
    IF centered THEN Abs(current_position - target) > 1 ELSE TRUE

\* variant: the upper clamp is missing
adjust_trim_no_upper(trim, value) ==
    LET stepped == IF value = -1 THEN trim - TRIM_STEP
                   ELSE IF value = 1 THEN trim + TRIM_STEP
                   ELSE trim
    IN  Max(-MAX_TRIM, stepped)

\* variant: a step of two degrees
adjust_trim_step_two(trim, value) ==
    LET stepped == IF value = -1 THEN trim - 2 * TRIM_STEP
                   ELSE IF value = 1 THEN trim + 2 * TRIM_STEP
                   ELSE trim
    IN  Max(-MAX_TRIM, Min(MAX_TRIM, stepped))

\* lines 99-104: the new value of steering_trim for a D-pad value
adjust_trim(trim, value) ==
    LET stepped == IF value = -1 THEN trim - TRIM_STEP
                   ELSE IF value = 1 THEN trim + TRIM_STEP
                   ELSE trim
    IN  Max(-MAX_TRIM, Min(MAX_TRIM, stepped))

\* variant: the trim branch does not test the value
Classify_trim_any_value(e) ==
    IF e.type = EV_ABS /\ e.code = STEERING_AXIS_CODE THEN "steer"
    ELSE IF e.type = EV_ABS /\ e.code = TRIM_AXIS_CODE THEN "trim"
    ELSE IF e.type = EV_KEY THEN "key"
    ELSE "next"

\* variant: every axis other than the stick is taken for the D-pad
Classify_any_axis_trim(e) ==
    IF e.type = EV_ABS /\ e.code = STEERING_AXIS_CODE THEN "steer"
    ELSE IF e.type = EV_ABS /\ e.value # 0 THEN "trim"
    ELSE IF e.type = EV_KEY THEN "key"
    ELSE "next"

\* the if/elif chain of lines 81, 96 and 113: the branch an event enters
Classify(e) ==
    IF e.type = EV_ABS /\ e.code = STEERING_AXIS_CODE THEN "steer"
    ELSE IF e.type = EV_ABS /\ e.code = TRIM_AXIS_CODE /\ e.value # 0 THEN "trim"
    ELSE IF e.type = EV_KEY THEN "key"
    ELSE "next"

\* variant: releasing the brake key keeps the brake on
key_command_brake_held(code, value) ==
    IF code = ACCEL_CODE THEN
        IF value = 1 THEN <<Cmd("drive_on", FULL_SPEED)>>
        ELSE IF value = 0 THEN <<Cmd("drive_stop", 0)>> ELSE <<>>
    ELSE IF code = REVERSE_CODE THEN
        IF value = 1 THEN <<Cmd("drive_on", -FULL_SPEED)>>
        ELSE IF value = 0 THEN <<Cmd("drive_stop", 0)>> ELSE <<>>
    ELSE IF code = BRAKE_CODE THEN
        IF value = 1 THEN <<Cmd("drive_stop", 1)>>
        ELSE IF value = 0 THEN <<Cmd("drive_stop", 1)>> ELSE <<>>
    ELSE IF code = HORN_CODE THEN
        IF value = 1 THEN <<Cmd("play", 1)>> ELSE <<>>
    ELSE IF code = HORN2_CODE THEN
        IF value = 1 THEN <<Cmd("play", 2)>> ELSE <<>>
    ELSE IF code = STOP_SOUND_CODE THEN
        IF value = 1 THEN <<Cmd("sound_stop", 0)>> ELSE <<>>
    ELSE <<>>

\* variant: the horn also sounds on key repeat
key_command_horn_repeat(code, value) ==
    IF code = ACCEL_CODE THEN
        IF value = 1 THEN <<Cmd("drive_on", FULL_SPEED)>>
        ELSE IF value = 0 THEN <<Cmd("drive_stop", 0)>> ELSE <<>>
    ELSE IF code = REVERSE_CODE THEN
        IF value = 1 THEN <<Cmd("drive_on", -FULL_SPEED)>>
        ELSE IF value = 0 THEN <<Cmd("drive_stop", 0)>> ELSE <<>>
    ELSE IF code = BRAKE_CODE THEN
        IF value = 1 THEN <<Cmd("drive_stop", 1)>>
        ELSE IF value = 0 THEN <<Cmd("drive_stop", 0)>> ELSE <<>>
    ELSE IF code = HORN_CODE THEN
        IF value # 0 THEN <<Cmd("play", 1)>> ELSE <<>>
    ELSE IF code = HORN2_CODE THEN
        IF value = 1 THEN <<Cmd("play", 2)>> ELSE <<>>
    ELSE IF code = STOP_SOUND_CODE THEN
        IF value = 1 THEN <<Cmd("sound_stop", 0)>> ELSE <<>>
    ELSE <<>>

\* lines 116-151: the command a key event issues, if any
key_command(code, value) ==
    IF code = ACCEL_CODE THEN
        IF value = 1 THEN <<Cmd("drive_on", FULL_SPEED)>>
        ELSE IF value = 0 THEN <<Cmd("drive_stop", 0)>> ELSE <<>>
    ELSE IF code = REVERSE_CODE THEN
        IF value = 1 THEN <<Cmd("drive_on", -FULL_SPEED)>>
        ELSE IF value = 0 THEN <<Cmd("drive_stop", 0)>> ELSE <<>>
    ELSE IF code = BRAKE_CODE THEN
        IF value = 1 THEN <<Cmd("drive_stop", 1)>>
        ELSE IF value = 0 THEN <<Cmd("drive_stop", 0)>> ELSE <<>>
    ELSE IF code = HORN_CODE THEN
        IF value = 1 THEN <<Cmd("play", 1)>> ELSE <<>>
    ELSE IF code = HORN2_CODE THEN
        IF value = 1 THEN <<Cmd("play", 2)>> ELSE <<>>
    ELSE IF code = STOP_SOUND_CODE THEN
        IF value = 1 THEN <<Cmd("sound_stop", 0)>> ELSE <<>>
    ELSE <<>>

\* the tank after a command (tank.on / tank.off of ev3dev2)
drive_after(d, cmds) ==
    IF cmds = <<>> THEN d
    ELSE IF cmds[1].op = "drive_on"
         THEN (IF cmds[1].arg > 0 THEN "fwd" ELSE "rev")
    ELSE IF cmds[1].op = "drive_stop"
         THEN (IF cmds[1].arg = 1 THEN "brake" ELSE "coast")
    ELSE d

\* positions of the thread inside the for loop of lines 78-151
LoopPcs == {"read", "steer", "trim", "trim_log", "trim_speak", "trim_steer",
            "key", "next"}
\* positions at which a call into a device library is about to be made
CallPcs == {"read", "steer", "trim_speak", "trim_steer", "key"}

\* ---- setup, lines 61-73 ----

\* dev = InputDevice(CONTROLLER_PATH) succeeds (lines 62-64, 73)
OpenOk ==
    /\ pc = "open"
    /\ pc' = "read"
    /\ UNCHANGED <<steering_trim, ev, target_angle, position, trim0, drive0,
                   out,
                   drive, steer, stop_action, shut, exitPath, exitFrom, exitCode>>

\* variant: the open sits inside the try, so the finally clause runs
OpenFail_in_try ==
    /\ pc = "open"
    /\ pc' = "fin_tank"
    /\ exitPath' = "setup"
    /\ exitFrom' = pc
    /\ exitCode' = 1
    /\ UNCHANGED <<steering_trim, ev, target_angle, position, trim0, drive0,
                   out,
                   drive, steer, stop_action, shut>>

\* FileNotFoundError or PermissionError: print and sys.exit(1) (lines 65-70);
\* the try of line 75 has not been entered
OpenFail ==
    /\ pc = "open"
    /\ pc' = "exited"
    /\ exitPath' = "setup"
    /\ exitFrom' = pc
    /\ exitCode' = 1
    /\ UNCHANGED <<steering_trim, ev, target_angle, position, trim0, drive0,
                   out,
                   drive, steer, stop_action, shut>>

\* ---- the loop, lines 78-151 ----

\* line 78: the next event arrives and the if/elif chain selects its branch
ReadEvent ==
    /\ pc = "read"
    /\ \E e \in Events :
        /\ ev' = e
        /\ pc' = Classify(e)
    /\ trim0' = steering_trim
    /\ drive0' = drive
    /\ out' = <<>>
    /\ target_angle' = NoAngle
    /\ position' = NoPosition
    /\ UNCHANGED <<steering_trim, drive, steer, stop_action, shut, exitPath,
                   exitFrom, exitCode>>

\* variant: a centred stick takes the trim back to zero
Steer_recentres ==
    /\ pc = "steer"
    /\ LET t == normalize_steering(ev.value)
           c == dispatch_is_centered(ev.value)
       IN  /\ target_angle' = t
           /\ steering_trim' = IF c THEN 0 ELSE steering_trim
           /\ \E p \in (t - MaxDelta)..(t + MaxDelta) :
                /\ position' = IF c THEN p ELSE NoPosition
                /\ out' = IF issue_steering(c, p, t)
                          THEN <<Cmd("steer_to", t)>> ELSE <<>>
                /\ steer' = IF issue_steering(c, p, t) THEN "running" ELSE steer
    /\ pc' = "next"
    /\ UNCHANGED <<ev, trim0, drive0, drive, stop_action, shut,
                   exitPath, exitFrom, exitCode>>

\* lines 83-93: steering stick sample
Steer ==
    /\ pc = "steer"
    /\ LET t == normalize_steering(ev.value)
           c == dispatch_is_centered(ev.value)
       IN  /\ target_angle' = t
           /\ \E p \in (t - MaxDelta)..(t + MaxDelta) :
                /\ position' = IF c THEN p ELSE NoPosition
                /\ out' = IF issue_steering(c, p, t)
                          THEN <<Cmd("steer_to", t)>> ELSE <<>>
                /\ steer' = IF issue_steering(c, p, t) THEN "running" ELSE steer
    /\ pc' = "next"
    /\ UNCHANGED <<steering_trim, ev, trim0, drive0, drive, stop_action, shut,
                   exitPath, exitFrom, exitCode>>

\* lines 99-104: D-pad value steps the trim, which is then clamped
TrimUpdate ==
    /\ pc = "trim"
    /\ steering_trim' = adjust_trim(steering_trim, ev.value)
    /\ pc' = "trim_log"
    /\ UNCHANGED <<ev, target_angle, position, trim0, drive0,
                   out, drive, steer,
                   stop_action, shut, exitPath, exitFrom, exitCode>>

\* line 106: print the new trim
TrimLog ==
    /\ pc = "trim_log"
    /\ out' = Append(out, Cmd("log", steering_trim))
    /\ pc' = "trim_speak"
    /\ UNCHANGED <<steering_trim, ev, target_angle, position, trim0, drive0,
                   drive,
                   steer, stop_action, shut, exitPath, exitFrom, exitCode>>

\* line 107: speak the new trim
TrimSpeak ==
    /\ pc = "trim_speak"
    /\ out' = Append(out, Cmd("speak", steering_trim))
    /\ pc' = "trim_steer"
    /\ UNCHANGED <<steering_trim, ev, target_angle, position, trim0, drive0,
                   drive,
                   steer, stop_action, shut, exitPath, exitFrom, exitCode>>

\* variant: the stutter test of the steering branch is applied to the trim move
TrimSteer_stutter ==
    /\ pc = "trim_steer"
    /\ \E p \in (steering_trim - MaxDelta)..(steering_trim + MaxDelta) :
        /\ position' = p
        /\ out' = IF Abs(p - steering_trim) > 1
                  THEN Append(out, Cmd("steer_to", steering_trim)) ELSE out
        /\ steer' = IF Abs(p - steering_trim) > 1 THEN "running" ELSE steer
    /\ pc' = "next"
    /\ UNCHANGED <<steering_trim, ev, target_angle, trim0, drive0, drive,
                   stop_action, shut, exitPath, exitFrom, exitCode>>

\* variant: no command when the clamp left the trim where it was
TrimSteer_if_changed ==
    /\ pc = "trim_steer"
    /\ out' = IF steering_trim # trim0
              THEN Append(out, Cmd("steer_to", steering_trim)) ELSE out
    /\ steer' = IF steering_trim # trim0 THEN "running" ELSE steer
    /\ pc' = "next"
    /\ UNCHANGED <<steering_trim, ev, target_angle, position, trim0, drive0,
                   drive,
                   stop_action, shut, exitPath, exitFrom, exitCode>>

\* line 110: move the steering motor to the trim
TrimSteer ==
    /\ pc = "trim_steer"
    /\ out' = Append(out, Cmd("steer_to", steering_trim))
    /\ steer' = "running"
    /\ pc' = "next"
    /\ UNCHANGED <<steering_trim, ev, target_angle, position, trim0, drive0,
                   drive,
                   stop_action, shut, exitPath, exitFrom, exitCode>>

\* variant: while the drive runs forward only the forward key is obeyed
Key_forward_priority ==
    /\ pc = "key"
    /\ LET cmds == IF drive = "fwd" /\ ev.code # ACCEL_CODE
                   THEN <<>> ELSE key_command(ev.code, ev.value)
       IN  /\ out' = cmds
           /\ drive' = drive_after(drive, cmds)
    /\ pc' = "next"
    /\ UNCHANGED <<steering_trim, ev, target_angle, position, trim0, drive0,
                   steer, stop_action, shut, exitPath, exitFrom, exitCode>>

\* lines 113-151: key event
Key ==
    /\ pc = "key"
    /\ out' = key_command(ev.code, ev.value)
    /\ drive' = drive_after(drive, key_command(ev.code, ev.value))
    /\ pc' = "next"
    /\ UNCHANGED <<steering_trim, ev, target_angle, position, trim0, drive0,
                   steer,
                   stop_action, shut, exitPath, exitFrom, exitCode>>

\* end of the loop body: back to line 78.  The locals of the finished
\* iteration are dead and are reset.
LoopBack ==
    /\ pc = "next"
    /\ pc' = "read"
    /\ ev' = NoEvent
    /\ target_angle' = NoAngle
    /\ position' = NoPosition
    /\ trim0' = steering_trim
    /\ drive0' = drive
    /\ out' = <<>>
    /\ UNCHANGED <<steering_trim, drive, steer, stop_action, shut, exitPath,
                   exitFrom, exitCode>>

\* ---- leaving the loop ----

LeaveLoop(path, to, code) ==
    /\ pc' = to
    /\ exitPath' = path
    /\ exitFrom' = pc
    /\ exitCode' = code
    /\ ev' = NoEvent
    /\ target_angle' = NoAngle
    /\ position' = NoPosition
    /\ trim0' = steering_trim
    /\ drive0' = drive
    /\ out' = <<>>
    /\ UNCHANGED <<steering_trim, drive, steer, stop_action, shut>>

\* variant: the interrupt is caught inside the loop body, which goes on
Interrupt_swallowed ==
    /\ pc \in LoopPcs
    /\ LeaveLoop("interrupt", "read", 0)

\* variant: there is no except clause, the interrupt goes to the finally
Interrupt_finally_only ==
    /\ pc \in LoopPcs
    /\ LeaveLoop("interrupt", "fin_tank", 0)

\* KeyboardInterrupt raised anywhere in the loop: line 153 catches it and
\* line 154 prints
Interrupt ==
    /\ pc \in LoopPcs
    /\ LeaveLoop("interrupt", "kb_tank", 0)

\* any other exception out of a device call: only the finally clause runs
\* and the exception then ends the process; a key event that issues no
\* command makes no call
Raise ==
    /\ pc \in CallPcs
    /\ pc = "key" => key_command(ev.code, ev.value) # <<>>
    /\ LeaveLoop("exception", "fin_tank", 1)

\* the iterator of line 78 is exhausted
StreamEnd ==
    /\ pc = "read"
    /\ LeaveLoop("end", "fin_tank", 0)

ShutdownStep(from, to, cmd) ==
    /\ pc = from
    /\ pc' = to
    /\ shut' = Append(shut, cmd)
    /\ drive' = drive_after(drive, <<cmd>>)
    /\ stop_action' = IF cmd.op = "stop_action" THEN "brake" ELSE stop_action
    /\ steer' = IF cmd.op = "steer_off" THEN "off" ELSE steer
    /\ UNCHANGED <<steering_trim, ev, target_angle, position, trim0, drive0,
                   out,
                   exitPath, exitFrom, exitCode>>

\* lines 155-157, the except clause
KbTankOff == ShutdownStep("kb_tank", "kb_stop_action", Cmd("drive_stop", 0))
KbStopAction == ShutdownStep("kb_stop_action", "kb_off", Cmd("stop_action", 1))
KbSteerOff == ShutdownStep("kb_off", "fin_tank", Cmd("steer_off", 0))

\* variant: the finally clause leaves the steering motor as it is
FinSteerOff_missing ==
    /\ pc = "fin_off"
    /\ pc' = "exited"
    /\ UNCHANGED <<steering_trim, ev, target_angle, position, trim0, drive0,
                   out,
                   drive, steer, stop_action, shut, exitPath, exitFrom,
                   exitCode>>

\* lines 159-161, the finally clause
FinTankOff == ShutdownStep("fin_tank", "fin_stop_action", Cmd("drive_stop", 0))
FinStopAction == ShutdownStep("fin_stop_action", "fin_off", Cmd("stop_action", 1))
FinSteerOff == ShutdownStep("fin_off", "exited", Cmd("steer_off", 0))

Next ==
    \/ OpenOk
    \/ OpenFail
    \/ ReadEvent
    \/ Steer
    \/ TrimUpdate
    \/ TrimLog
    \/ TrimSpeak
    \/ TrimSteer
    \/ Key
    \/ LoopBack
    \/ Interrupt
    \/ Raise
    \/ StreamEnd
    \/ KbTankOff
    \/ KbStopAction
    \/ KbSteerOff
    \/ FinTankOff
    \/ FinStopAction
    \/ FinSteerOff

Spec == Init /\ [][Next]_vars

\* ---- normalize_steering on its own ----

\* every value the trim can take, before the first call
NormInit ==
    /\ pc = "norm"
    /\ steering_trim \in -MAX_TRIM..MAX_TRIM
    /\ ev = NoEvent
    /\ target_angle = NoAngle
    /\ position = NoPosition
    /\ trim0 = steering_trim
    /\ drive0 = "idle"
    /\ out = <<>>
    /\ drive = "idle"
    /\ steer = "reset"
    /\ stop_action = "coast"
    /\ shut = <<>>
    /\ exitPath = "none"
    /\ exitFrom = "none"
    /\ exitCode = 0

\* line 83: target_angle = normalize_steering(event.value) for any raw value
NormalizeCall ==
    /\ pc = "norm"
    /\ \E v \in AXIS_MIN..AXIS_MAX :
        /\ ev' = Event(EV_ABS, STEERING_AXIS_CODE, v)
        /\ target_angle' = normalize_steering(v)
    /\ UNCHANGED <<pc, steering_trim, position, trim0, drive0, out, drive, steer,
                   stop_action, shut, exitPath, exitFrom, exitCode>>

NormNext == NormalizeCall

SpecNorm == NormInit /\ [][NormNext]_vars

TypeOK ==
    /\ steering_trim \in -MAX_TRIM..MAX_TRIM
    /\ drive \in {"idle", "fwd", "rev", "coast", "brake"}
    /\ steer \in {"reset", "running", "off"}
    /\ stop_action \in {"coast", "brake"}
    /\ Len(out) <= 3
    /\ Len(shut) <= 6

\* ---- properties ----

IsSteeringSample(e) == e.type = EV_ABS /\ e.code = STEERING_AXIS_CODE
IsTrimEvent(e) == e.type = EV_ABS /\ e.code = TRIM_AXIS_CODE

\* the shutdown sequence of section 7
ShutdownSeq ==
    <<Cmd("drive_stop", 0), Cmd("stop_action", 1), Cmd("steer_off", 0)>>

LastThree(q) == SubSeq(q, Len(q) - 2, Len(q))

\* a drive stop without brake is followed, later, by steering power-off
StopThenOff(q) ==
    \E i, j \in 1..Len(q) :
        /\ i < j
        /\ q[i] = Cmd("drive_stop", 0)
        /\ q[j] = Cmd("steer_off", 0)

\* C1: the trim starts at 0 and is within [-MAX_TRIM, MAX_TRIM] in every
\* reachable state, whatever the type, code and value of the events
C1_TrimInRange ==
    /\ steering_trim \in -MAX_TRIM..MAX_TRIM
    /\ pc = "open" => steering_trim = 0

\* the clamp has acted at the upper limit
C1_Witness ==
    /\ pc = "trim_log"
    /\ ev = Event(EV_ABS, TRIM_AXIS_CODE, 1)
    /\ trim0 = MAX_TRIM
    /\ steering_trim = MAX_TRIM

\* C2: when the loop was left (stream end, interrupt or another
\* exception) and the program has ended, the last three actuator commands are
\* drive stop without brake, stop behaviour brake, steering off, in that
\* order, and the drive is stopped and the steering motor is off
C2_ShutdownOnExit ==
    (pc = "exited" /\ exitPath \in {"end", "interrupt", "exception"}) =>
        /\ Len(shut) >= 3
        /\ LastThree(shut) = ShutdownSeq
        /\ drive = "coast"
        /\ stop_action = "brake"
        /\ steer = "off"

\* an exception out of a key handler ended the loop and the program is over
C2_Witness ==
    /\ pc = "exited"
    /\ exitPath = "exception"
    /\ exitFrom = "key"
    /\ shut = ShutdownSeq

\* C3, as stated: after a failed open the shutdown sequence has been issued
\* when the process ends
C3_Original ==
    (pc = "exited" /\ exitPath = "setup") => StopThenOff(shut)

\* C3, amended: after a failed open the process ends with status 1 and
\* without any actuator command; the drive was never turned on
C3_SetupFailureExits ==
    (exitPath = "setup") =>
        /\ pc = "exited"
        /\ exitCode = 1
        /\ shut = <<>>
        /\ out = <<>>
        /\ drive = "idle"
        /\ steer = "reset"
        /\ stop_action = "coast"

C3_Witness ==
    /\ pc = "exited"
    /\ exitPath = "setup"
    /\ exitFrom = "open"

\* C4: once an interrupt has arrived in the loop, no event is being
\* processed or read, nothing but drive-stop, stop-behaviour and steering-off
\* commands is issued, the drive is never turned on and the steering motor is
\* never started again, and at the end a drive stop without brake has been
\* followed by steering power-off
C4_InterruptStops ==
    /\ [](exitPath = "interrupt" =>
            /\ pc \notin LoopPcs
            /\ ev = NoEvent
            /\ out = <<>>
            /\ \A i \in 1..Len(shut) : shut[i].op \notin {"drive_on", "steer_to"}
            /\ pc = "exited" => StopThenOff(shut))
    /\ [][exitPath = "interrupt" =>
            /\ ev' = NoEvent
            /\ drive' \in {"fwd", "rev"} => drive' = drive
            /\ steer' = "running" => steer = "running"]_vars

\* the interrupt arrived after the trim was updated and announced, before the
\* steering command, and the shutdown has run
C4_Witness ==
    /\ pc = "exited"
    /\ exitPath = "interrupt"
    /\ exitFrom = "trim_steer"
    /\ steering_trim = 1
    /\ steer = "off"

\* C5: after a steering sample was processed, exactly one steer-to command
\* with the normalized target was issued if the stick is off centre or the
\* position is more than one degree from the target, and none otherwise
C5_SteeringDispatch ==
    (pc = "next" /\ IsSteeringSample(ev)) =>
        LET centered == Abs(ev.value - AXIS_MID) <= STEERING_DEADZONE
        IN  /\ target_angle = normalize_steering(ev.value)
            /\ IF ~centered \/ Abs(position - target_angle) > 1
               THEN out = <<Cmd("steer_to", target_angle)>>
               ELSE out = <<>>
            /\ (ev.value = 128 /\ steering_trim = 10 /\ position = 10)
                   => out = <<>>
            /\ (ev.value = 128 /\ steering_trim = 10 /\ position = 5)
                   => out = <<Cmd("steer_to", 10)>>

\* centred stick, trim 10, position one degree from it: suppressed
C5_Witness ==
    /\ pc = "next"
    /\ ev = Event(EV_ABS, STEERING_AXIS_CODE, 128)
    /\ steering_trim = 10
    /\ position = 11
    /\ out = <<>>

\* C6: for a raw value in [118,138] and any trim, the normalized target is
\* the trim itself
C6_DeadzoneReturnsTrim ==
    (IsSteeringSample(ev) /\ target_angle # NoAngle /\ ev.value \in 118..138)
        => target_angle = steering_trim

\* the lower end of the deadzone with a nonzero trim
C6_Witness ==
    /\ pc = "norm"
    /\ ev = Event(EV_ABS, STEERING_AXIS_CODE, 118)
    /\ steering_trim = -45
    /\ target_angle = -45

OutsideDeadzone(raw) == raw \in 0..117 \/ raw \in 139..255

\* C7: for a fixed trim, of two samples outside the deadzone the one with the
\* larger raw value has the larger or equal target, also across the deadzone
C7_Monotonic ==
    [][(/\ pc = "norm"
        /\ IsSteeringSample(ev)
        /\ OutsideDeadzone(ev.value)
        /\ OutsideDeadzone(ev'.value)
        /\ ev.value <= ev'.value)
       => target_angle <= target_angle']_vars

\* just above the deadzone with the trim pulling the sum below zero
C7_Witness ==
    /\ pc = "norm"
    /\ ev = Event(EV_ABS, STEERING_AXIS_CODE, 139)
    /\ steering_trim = -45
    /\ target_angle = -37

\* C8: outside the deadzone the target t is (raw-128)*90/127 + trim cut
\* toward zero: with q the numerator of that sum over 127, t has the sign of
\* q and 127*|t| <= |q| < 127*(|t|+1); normalize(255,0) = 90, normalize(0,0) = -90
C8_TruncatedProportional ==
    (IsSteeringSample(ev) /\ target_angle # NoAngle /\ OutsideDeadzone(ev.value))
        => LET q == (ev.value - 128) * 90 + steering_trim * 127
               t == target_angle
           IN  /\ 127 * Abs(t) <= Abs(q)
               /\ Abs(q) < 127 * (Abs(t) + 1)
               /\ t * q >= 0
               /\ (ev.value = 255 /\ steering_trim = 0) => t = 90
               /\ (ev.value = 0 /\ steering_trim = 0) => t = -90

\* raw 0 without trim: -90.7 is cut to -90
C8_Witness ==
    /\ pc = "norm"
    /\ ev = Event(EV_ABS, STEERING_AXIS_CODE, 0)
    /\ steering_trim = 0
    /\ target_angle = -90

\* the sum of trim and direction, held at the limits 45 and -45
SaturatingAdd(t, d) ==
    IF t + d > 45 THEN 45 ELSE IF t + d < -45 THEN -45 ELSE t + d

\* C9: a trim event of direction +1 or -1 moves the trim by one degree in
\* that direction, held within [-45,45]: +1 at 45 leaves 45, -1 at -45 leaves
\* -45 (with the trim starting at 0 this makes it the saturating sum)
C9_TrimStep ==
    [][(pc = "trim" /\ pc' = "trim_log" /\ ev.value \in {-1, 1})
       => /\ steering_trim' = SaturatingAdd(steering_trim, ev.value)
          /\ (steering_trim = 45 /\ ev.value = 1) => steering_trim' = 45
          /\ (steering_trim = -45 /\ ev.value = -1) => steering_trim' = -45
          /\ (-45 < steering_trim /\ steering_trim < 45)
                 => steering_trim' = steering_trim + ev.value]_vars

\* direction -1 applied at the lower limit
C9_Witness ==
    /\ pc = "trim_log"
    /\ ev = Event(EV_ABS, TRIM_AXIS_CODE, -1)
    /\ trim0 = -45
    /\ steering_trim = -45

InOut(c) == \E i \in 1..Len(out) : out[i] = c

\* C10, as stated: D-pad value -1 at trim 45 leaves the trim at 45, with a
\* steering command to 45 and an announcement
C10_Original ==
    (pc = "next" /\ ev = Event(EV_ABS, TRIM_AXIS_CODE, -1) /\ trim0 = 45)
        => /\ steering_trim = 45
           /\ InOut(Cmd("steer_to", 45))
           /\ InOut(Cmd("speak", 45))

\* C10, amended: D-pad value +1 at trim 45 leaves the trim at 45, and the
\* log, the announcement and the steering command to 45 are still issued;
\* value -1 at trim 45 gives trim 44 with the same three outputs for 44
C10_ClampedTrimStillCommands ==
    (pc = "next" /\ IsTrimEvent(ev) /\ trim0 = 45) =>
        /\ ev.value = 1 =>
            /\ steering_trim = 45
            /\ out = <<Cmd("log", 45), Cmd("speak", 45), Cmd("steer_to", 45)>>
        /\ ev.value = -1 =>
            /\ steering_trim = 44
            /\ out = <<Cmd("log", 44), Cmd("speak", 44), Cmd("steer_to", 44)>>

C10_Witness ==
    /\ pc = "next"
    /\ ev = Event(EV_ABS, TRIM_AXIS_CODE, 1)
    /\ trim0 = 45
    /\ steering_trim = 45
    /\ InOut(Cmd("steer_to", 45))
    /\ InOut(Cmd("speak", 45))

TrimRest == Event(EV_ABS, TRIM_AXIS_CODE, 0)

\* C11: a trim-axis event of value 0 enters no handler, leaves the trim,
\* the drive and the steering motor as they were, and no log line,
\* announcement or command is issued for it
C11_TrimRestIgnored ==
    /\ [](ev = TrimRest =>
            /\ pc = "next"
            /\ out = <<>>
            /\ steering_trim = trim0
            /\ drive = drive0)
    /\ [][(ev = TrimRest \/ ev' = TrimRest) =>
            /\ out' = <<>>
            /\ UNCHANGED <<steering_trim, drive, steer, stop_action, shut>>]_vars

\* the D-pad came to rest after the trim was moved and the car was driving
C11_Witness ==
    /\ pc = "next"
    /\ ev = TrimRest
    /\ steering_trim = 3
    /\ drive = "fwd"
    /\ out = <<>>

\* the three outputs of a trim event for the trim value t
TrimOutputs(t) == <<Cmd("log", t), Cmd("speak", t), Cmd("steer_to", t)>>

\* C12: while a trim event of value +1 or -1 is processed, the trim is
\* updated first, then the log, the announcement and one steering command to
\* the new trim follow in this order; when the event is done all three have
\* been issued, also when the clamp left the trim unchanged
C12_TrimEventOutputs ==
    (IsTrimEvent(ev) /\ ev.value \in {-1, 1}) =>
        LET t == SaturatingAdd(trim0, ev.value)
        IN  /\ pc = "trim" => (steering_trim = trim0 /\ out = <<>>)
            /\ pc # "trim" => steering_trim = t
            /\ pc = "trim_log" => out = <<>>
            /\ pc = "trim_speak" => out = SubSeq(TrimOutputs(t), 1, 1)
            /\ pc = "trim_steer" => out = SubSeq(TrimOutputs(t), 1, 2)
            /\ pc = "next" => out = TrimOutputs(t)

\* direction -1 at the lower limit: trim unchanged, all three outputs
C12_Witness ==
    /\ pc = "next"
    /\ ev = Event(EV_ABS, TRIM_AXIS_CODE, -1)
    /\ trim0 = -45
    /\ steering_trim = -45
    /\ out = TrimOutputs(-45)

IsDriveKey(e) ==
    /\ e.type = EV_KEY
    /\ e.code \in {313, 314, 312}
    /\ e.value \in {0, 1}

\* the table of section 4.4
DriveTable(e) ==
    IF e.value = 0 THEN Cmd("drive_stop", 0)
    ELSE IF e.code = 313 THEN Cmd("drive_on", 100)
    ELSE IF e.code = 314 THEN Cmd("drive_on", -100)
    ELSE Cmd("drive_stop", 1)

\* C13: a processed drive key event has issued exactly the one command of
\* the table; releasing forward while the drive runs forward issues the stop
\* without brake after the full-speed-forward command
C13_DriveTable ==
    /\ []((pc = "next" /\ IsDriveKey(ev)) => out = <<DriveTable(ev)>>)
    /\ [][(pc = "key" /\ ev = Event(EV_KEY, 313, 0) /\ drive = "fwd" /\ pc' = "next")
            => (out' = <<Cmd("drive_stop", 0)>> /\ drive' = "coast")]_vars

\* forward was pressed, and its release has been processed
C13_Witness ==
    /\ pc = "next"
    /\ ev = Event(EV_KEY, ACCEL_CODE, 0)
    /\ drive0 = "fwd"
    /\ drive = "coast"
    /\ out = <<Cmd("drive_stop", 0)>>

\* the drive state a drive key event commands
DriveOf(e) ==
    IF e.value = 0 THEN "coast"
    ELSE IF e.code = 313 THEN "fwd"
    ELSE IF e.code = 314 THEN "rev"
    ELSE "brake"

\* C14: after a drive key event of value 0 or 1 the drive is in the state
\* that event commands, whatever it was before, and inside the loop no other
\* step changes the drive
C14_LastDriveEventWins ==
    /\ []((pc = "next" /\ IsDriveKey(ev)) => drive = DriveOf(ev))
    /\ [][(pc \in LoopPcs /\ pc' \in LoopPcs /\ ~(pc = "key" /\ IsDriveKey(ev)))
            => drive' = drive]_vars

\* the drive ran forward when reverse was released: stopped without brake
C14_Witness ==
    /\ pc = "next"
    /\ ev = Event(EV_KEY, REVERSE_CODE, 0)
    /\ drive0 = "fwd"
    /\ drive = "coast"

IsSoundKey(e) == e.type = EV_KEY /\ e.code \in {304, 305, 308}

SoundOf(e) ==
    IF e.code = 304 THEN Cmd("play", 1)
    ELSE IF e.code = 305 THEN Cmd("play", 2)
    ELSE Cmd("sound_stop", 0)

\* C15: a processed sound key event has issued its audio command once if
\* its value is 1 and nothing otherwise, and trim and drive are as before it;
\* no step taken for it changes the steering motor
C15_SoundKeys ==
    /\ []((pc = "next" /\ IsSoundKey(ev)) =>
            /\ out = IF ev.value = 1 THEN <<SoundOf(ev)>> ELSE <<>>
            /\ steering_trim = trim0
            /\ drive = drive0)
    /\ [][(IsSoundKey(ev) /\ pc = "key") =>
            UNCHANGED <<steering_trim, drive, steer, stop_action>>]_vars

\* a repeat event of the horn key while driving: nothing is played
C15_Witness ==
    /\ pc = "next"
    /\ ev = Event(EV_KEY, HORN_CODE, 2)
    /\ drive = "rev"
    /\ out = <<>>

\* events the program binds to nothing: another type, another axis,
\* another key
IsUnbound(e) ==
    \/ e.type \notin {EV_ABS, EV_KEY, NoEvent.type}
    \/ e.type = EV_ABS /\ e.code \notin {0, 16}
    \/ e.type = EV_KEY /\ e.code \notin {313, 314, 312, 304, 305, 308}

\* C16: an unbound event issues nothing, leaves trim, drive and steering
\* motor unchanged, and the loop goes on to the next read: no step taken for
\* it ends the loop with an error
C16_UnboundIgnored ==
    /\ [](IsUnbound(ev) =>
            /\ pc \in {"key", "next"}
            /\ out = <<>>
            /\ steering_trim = trim0
            /\ drive = drive0)
    /\ [][IsUnbound(ev) =>
            /\ UNCHANGED <<steering_trim, drive, steer, stop_action, shut>>
            /\ out' = <<>>
            /\ exitPath' \in {"none", "interrupt"}
            /\ exitPath' = "none" => pc' \in {"next", "read"}]_vars

\* an event of another axis with a nonzero value, after the trim was moved
C16_Witness ==
    /\ pc = "next"
    /\ ev = Event(EV_ABS, OtherAxisCode, 200)
    /\ steering_trim = -2
    /\ out = <<>>

\* C17: the trim changes only in the update step of a nonzero trim-axis
\* event; after any other event it is what it was before, and a steering
\* sample is normalized with that value
C17_TrimOnlyByTrimEvents ==
    /\ [][steering_trim' # steering_trim =>
            (pc = "trim" /\ IsTrimEvent(ev) /\ ev.value # 0)]_vars
    /\ []((pc = "next" /\ ~IsTrimEvent(ev)) => steering_trim = trim0)
    /\ []((pc = "next" /\ IsSteeringSample(ev) /\ ev.value \in 118..138)
            => target_angle = trim0)

\* a centred sample, suppressed, after the trim was set to 7
C17_Witness ==
    /\ pc = "next"
    /\ ev = Event(EV_ABS, STEERING_AXIS_CODE, 130)
    /\ steering_trim = 7
    /\ target_angle = 7
    /\ position = 7
    /\ out = <<>>

\* C18, as stated: the target of every steering sample, and the position of
\* every steering command issued for one, lies in -90..90
C18_TargetWithinRange ==
    (IsSteeringSample(ev) /\ target_angle # NoAngle) =>
        /\ target_angle \in -90..90
        /\ \A i \in 1..Len(out) : out[i].arg \in -90..90

\* C19: the loop treats a sample as centred (reads the position) exactly
\* when |raw - 128| <= 10, whatever the trim; a centred sample has the trim
\* as its target and is commanded exactly when the position is more than one
\* degree from the trim; a deflected sample is always commanded
C19_CenteredChecksAgree ==
    (pc = "next" /\ IsSteeringSample(ev)) =>
        LET centered == Abs(ev.value - 128) <= 10
        IN  /\ (position # NoPosition) <=> centered
            /\ is_centered_on_stick(ev.value) <=> centered
            /\ centered =>
                /\ target_angle = steering_trim
                /\ (out # <<>>) <=> (Abs(position - steering_trim) > 1)
                /\ out # <<>> => out = <<Cmd("steer_to", steering_trim)>>
            /\ ~centered => Len(out) = 1

\* raw 118 is centred although, shifted by the trim, it would not be
C19_Witness ==
    /\ pc = "next"
    /\ ev = Event(EV_ABS, STEERING_AXIS_CODE, 118)
    /\ steering_trim = -45
    /\ target_angle = -45
    /\ position = -44
    /\ out = <<>>

LoopExits == {"end", "interrupt", "exception"}

\* C20, as stated: on every exit path of the loop the shutdown sequence has
\* run exactly once when the program ends
C20_Original ==
    (pc = "exited" /\ exitPath \in LoopExits) => shut = ShutdownSeq

\* C20, amended: the shutdown sequence has run exactly once after a stream
\* end or another exception, and exactly twice after an interrupt (except
\* clause, then finally clause)
C20_ShutdownCount ==
    (pc = "exited" /\ exitPath \in LoopExits) =>
        IF exitPath = "interrupt"
        THEN shut = ShutdownSeq \o ShutdownSeq
        ELSE shut = ShutdownSeq

\* the program ended after an interrupt during the blocked read
C20_Witness ==
    /\ pc = "exited"
    /\ exitPath = "interrupt"
    /\ exitFrom = "read"
    /\ Len(shut) = 6
====
